---- MODULE Spec2Model ----
\* Model of hikari's guild events (hikari/events/guild_events.py) and message
\* entities (hikari/messages.py): the accessors that resolve an event or a
\* message's mentions through the application's cache (the get_ methods) or
\* through its REST client (the fetch_ methods).
\*
\* Every Python value is a record with a `type` field, so that None, UNDEFINED,
\* snowflakes, containers and entities can be compared with one another.
EXTENDS Integers, Sequences, FiniteSets, TLC

VARIABLES app, cache, event, message, frame, entity, tasks

vars == <<app, cache, event, message, frame, entity, tasks>>

\* Bounds of the model.
MaxGuild == 2

MaxUser == 2

MaxRole == 2

MaxLen == 2

MaxCached == 2

MaxChannel == 2

MaxMessage == 2

\* Values.
None == [type |-> "NoneType"]

UNDEFINED == [type |-> "UndefinedType"]

Snowflake(n) == [type |-> "Snowflake", value |-> n]

Dict(f) == [type |-> "dict", items |-> f]

List(s) == [type |-> "list", items |-> s]

EmptyItems == [k \in {} |-> None]

Bool(b) == [type |-> "bool", value |-> b]

Str(x) == [type |-> "str", value |-> x]

\* A mapping of user ids to users, with its keys in insertion order.
UsersMapping(ids) == [type |-> "dict", keys |-> ids, items |-> [u \in {ids[i] : i \in DOMAIN ids} |-> [type |-> "User", id |-> u]]]

GuildIds == {Snowflake(n) : n \in 1..MaxGuild}

UserIds == {Snowflake(n) : n \in 1..MaxUser}

RoleIds == {Snowflake(n) : n \in 1..MaxRole}

ChannelIds == {Snowflake(n) : n \in 1..MaxChannel}

MessageIds == {Snowflake(n) : n \in 1..MaxMessage}

Range(s) == {s[i] : i \in DOMAIN s}

SeqsUpTo(S, n) == UNION {[1..k -> S] : k \in 0..n}

DistinctSeqs(S) == {s \in SeqsUpTo(S, Cardinality(S)) : Cardinality(Range(s)) = Len(s)}

\* dict[key] = value on the items of a dict.
SetItem(items, k, v) == [x \in (DOMAIN items) \cup {k} |-> IF x = k THEN v ELSE items[x]]

\* The application and its collaborators.
\* A stateful bot has a cache; a REST-only or stateless application has none.
Apps == {[type |-> "GatewayBot", cache_aware |-> TRUE], [type |-> "RESTBot", cache_aware |-> FALSE]}

\* isinstance(app, traits.CacheAware)
IsCacheAware(a) == a.cache_aware

EmptyCache == [available |-> {}, unavailable |-> {}, users |-> {}, members |-> {}, roles |-> {}]

CacheSize(c) == Cardinality(c.available) + Cardinality(c.unavailable) + Cardinality(c.users) + Cardinality(c.members) + Cardinality(c.roles)

User(u) == [type |-> "User", id |-> u]

Member(g, u) == [type |-> "Member", guild_id |-> g, user |-> User(u)]

Role(r) == [type |-> "Role", id |-> r]

GatewayGuild(g, available) == [type |-> "GatewayGuild", id |-> g, is_available |-> available]

\* The cache lookups: the cached entity, or None for a miss. None of them raises.
cache_get_member(g, u) == IF <<g, u>> \in cache.members THEN Member(g, u) ELSE None

cache_get_role(r) == IF r \in cache.roles THEN Role(r) ELSE None

cache_get_user(u) == IF u \in cache.users THEN User(u) ELSE None

cache_get_available_guild(g) == IF g \in cache.available THEN GatewayGuild(g, TRUE) ELSE None

cache_get_unavailable_guild(g) == IF g \in cache.unavailable THEN GatewayGuild(g, FALSE) ELSE None

\* One lookup of the cache, as it is recorded in a frame.
Lookup(method, args) == [method |-> method, args |-> args]

\* The outcome of a synchronous method: its return value, the cache lookups it made
\* and the REST requests it issued.
Returned(value, reads) == [status |-> "returned", result |-> value, reads |-> reads, rest |-> <<>>]

\* Mentions (messages.py).
RECURSIVE discover_keep_misses(_, _, _)
\* discover, storing the lookup's result under the id whether or not it is None.
discover_keep_misses(ids, cache_call, results) ==
    IF ids = <<>> THEN results
    ELSE discover_keep_misses(Tail(ids), cache_call, SetItem(results, Head(ids), cache_call[Head(ids)]))

RECURSIVE discover_break_on_miss(_, _, _)
\* discover, leaving the loop at the first id the cache misses.
discover_break_on_miss(ids, cache_call, results) ==
    IF ids = <<>> THEN results
    ELSE IF cache_call[Head(ids)] = None THEN results
    ELSE discover_break_on_miss(Tail(ids), cache_call, SetItem(results, Head(ids), cache_call[Head(ids)]))

RECURSIVE discover_dropping_on_miss(_, _, _)
\* discover, starting the results over at an id the cache misses.
discover_dropping_on_miss(ids, cache_call, results) ==
    IF ids = <<>> THEN results
    ELSE IF cache_call[Head(ids)] = None THEN discover_dropping_on_miss(Tail(ids), cache_call, EmptyItems)
    ELSE discover_dropping_on_miss(Tail(ids), cache_call, SetItem(results, Head(ids), cache_call[Head(ids)]))

RECURSIVE discover(_, _, _)
\* The loop of Mentions._map_cache_maybe_discover over the ids left, with the
\* results so far.
discover(ids, cache_call, results) ==
    IF ids = <<>> THEN results
    ELSE LET id_ == Head(ids)
             obj == cache_call[id_]
         IN  discover(Tail(ids), cache_call, IF obj # None THEN SetItem(results, id_, obj) ELSE results)

map_cache_maybe_discover(ids, cache_call) == discover(ids, cache_call, EmptyItems)

\* get_members, testing for a cache and a guild before testing for UNDEFINED.
get_members_empty_first(m) ==
    IF ~(IsCacheAware(app) /\ m.guild_id # None) THEN Returned(Dict(EmptyItems), <<>>)
    ELSE IF m.mentions.users = UNDEFINED THEN Returned(UNDEFINED, <<>>)
    ELSE LET ids == m.mentions.users.keys
         IN  Returned(Dict(map_cache_maybe_discover(ids, [user_id \in Range(ids) |-> cache_get_member(m.guild_id, user_id)])),
                      [i \in 1..Len(ids) |-> Lookup("get_member", <<m.guild_id, ids[i]>>)])

\* Mentions.get_members of the mentions of message m.
get_members(m) ==
    IF m.mentions.users = UNDEFINED THEN Returned(UNDEFINED, <<>>)
    ELSE IF IsCacheAware(app) /\ m.guild_id # None
    THEN LET guild_id == m.guild_id
             ids == m.mentions.users.keys
         IN  Returned(Dict(map_cache_maybe_discover(ids, [user_id \in Range(ids) |-> cache_get_member(guild_id, user_id)])),
                      [i \in 1..Len(ids) |-> Lookup("get_member", <<guild_id, ids[i]>>)])
    ELSE Returned(Dict(EmptyItems), <<>>)

\* get_roles, looking the roles up whether or not the message has a guild.
get_roles_without_guild_check(m) ==
    IF m.mentions.role_ids = UNDEFINED THEN Returned(UNDEFINED, <<>>)
    ELSE IF IsCacheAware(app)
    THEN LET ids == m.mentions.role_ids.items
         IN  Returned(Dict(map_cache_maybe_discover(ids, [role_id \in Range(ids) |-> cache_get_role(role_id)])),
                      [i \in 1..Len(ids) |-> Lookup("get_role", <<ids[i]>>)])
    ELSE Returned(Dict(EmptyItems), <<>>)

\* get_roles, returning UNDEFINED where the application has no cache.
get_roles_undefined_without_cache(m) ==
    IF m.mentions.role_ids = UNDEFINED \/ ~IsCacheAware(app) THEN Returned(UNDEFINED, <<>>)
    ELSE IF m.guild_id # None
    THEN LET ids == m.mentions.role_ids.items
         IN  Returned(Dict(map_cache_maybe_discover(ids, [role_id \in Range(ids) |-> cache_get_role(role_id)])),
                      [i \in 1..Len(ids) |-> Lookup("get_role", <<ids[i]>>)])
    ELSE Returned(Dict(EmptyItems), <<>>)

\* get_roles, with `or` in place of `and` between the cache test and the guild test.
get_roles_or_guard(m) ==
    IF m.mentions.role_ids = UNDEFINED THEN Returned(UNDEFINED, <<>>)
    ELSE IF IsCacheAware(app) \/ m.guild_id # None
    THEN LET ids == m.mentions.role_ids.items
         IN  Returned(Dict(map_cache_maybe_discover(ids, [role_id \in Range(ids) |-> cache_get_role(role_id)])),
                      [i \in 1..Len(ids) |-> Lookup("get_role", <<ids[i]>>)])
    ELSE Returned(Dict(EmptyItems), <<>>)

\* Mentions.get_roles of the mentions of message m.
get_roles(m) ==
    IF m.mentions.role_ids = UNDEFINED THEN Returned(UNDEFINED, <<>>)
    ELSE IF IsCacheAware(app) /\ m.guild_id # None
    THEN LET ids == m.mentions.role_ids.items
         IN  Returned(Dict(map_cache_maybe_discover(ids, [role_id \in Range(ids) |-> cache_get_role(role_id)])),
                      [i \in 1..Len(ids) |-> Lookup("get_role", <<ids[i]>>)])
    ELSE Returned(Dict(EmptyItems), <<>>)

\* A message as the transport layer constructs it: a PartialMessage with its
\* Mentions, which refer back to it.
\* PartialMessage, with the channel left unspecified like the other fields when
\* the payload is a partial update.
PartialMessage_with_channel_of_payload(id, channel_id, guild_id, users, role_ids) ==
    [type |-> "PartialMessage", id |-> id,
     channel_id |-> IF users = UNDEFINED /\ role_ids = UNDEFINED THEN UNDEFINED ELSE channel_id,
     guild_id |-> guild_id,
     author |-> UNDEFINED, content |-> UNDEFINED, components |-> UNDEFINED,
     mentions |-> [type |-> "Mentions", users |-> users, role_ids |-> role_ids]]

\* PartialMessage: id and channel_id are snowflakes; guild_id is a snowflake or
\* None; every other field may be unspecified, and is unless a caller sets it.
PartialMessage(id, channel_id, guild_id, users, role_ids) ==
    [type |-> "PartialMessage", id |-> id, channel_id |-> channel_id, guild_id |-> guild_id,
     author |-> UNDEFINED, content |-> UNDEFINED, components |-> UNDEFINED,
     mentions |-> [type |-> "Mentions", users |-> users, role_ids |-> role_ids]]

\* Guild events (events/guild_events.py).
\* typing.TYPE_CHECKING is False when the program runs.
TYPE_CHECKING == FALSE

Integration(g, application) == [type |-> "Integration", id |-> Snowflake(1), guild_id |-> g, application |-> application]

IntegrationApplication == [type |-> "IntegrationApplication", id |-> Snowflake(1)]

MemberPresence(g, u) == [type |-> "MemberPresence", guild_id |-> g, user_id |-> u]

GuildAvailableEvent(g) == [type |-> "GuildAvailableEvent", guild |-> GatewayGuild(g, TRUE)]

GuildLeaveEvent(g, old_guild) == [type |-> "GuildLeaveEvent", guild_id |-> g, old_guild |-> old_guild]

GuildUnavailableEvent(g) == [type |-> "GuildUnavailableEvent", guild_id |-> g]

GuildUpdateEvent(g, old_guild) == [type |-> "GuildUpdateEvent", guild |-> GatewayGuild(g, TRUE), old_guild |-> old_guild]

BanCreateEvent(g, u) == [type |-> "BanCreateEvent", guild_id |-> g, user |-> User(u)]

BanDeleteEvent(g, u) == [type |-> "BanDeleteEvent", guild_id |-> g, user |-> User(u)]

EmojisUpdateEvent(g, old_emojis) == [type |-> "EmojisUpdateEvent", guild_id |-> g, old_emojis |-> old_emojis, emojis |-> List(<<>>)]

IntegrationCreateEvent(g, application) == [type |-> "IntegrationCreateEvent", integration |-> Integration(g, application)]

IntegrationDeleteEvent(g, application_id) == [type |-> "IntegrationDeleteEvent", id |-> Snowflake(1), guild_id |-> g, application_id |-> application_id]

IntegrationUpdateEvent(g, application) == [type |-> "IntegrationUpdateEvent", integration |-> Integration(g, application)]

PresenceUpdateEvent(g, u, old_presence, user) == [type |-> "PresenceUpdateEvent", presence |-> MemberPresence(g, u), old_presence |-> old_presence, user |-> user]

GuildEventTypes == {"GuildAvailableEvent", "GuildLeaveEvent", "GuildUnavailableEvent", "GuildUpdateEvent",
                    "BanCreateEvent", "BanDeleteEvent", "EmojisUpdateEvent",
                    "IntegrationCreateEvent", "IntegrationDeleteEvent", "IntegrationUpdateEvent"}

BanEventTypes == {"BanCreateEvent", "BanDeleteEvent"}

IntegrationEventTypes == {"IntegrationCreateEvent", "IntegrationDeleteEvent", "IntegrationUpdateEvent"}

Optional(present, value) == IF present THEN value ELSE None

\* The events the dispatch layer constructs. An old value is None when the cache
\* had no record of the entity.
Events ==
    {GuildAvailableEvent(g) : g \in GuildIds}
    \cup {GuildLeaveEvent(g, Optional(cached, GatewayGuild(g, TRUE))) : g \in GuildIds, cached \in BOOLEAN}
    \cup {GuildUnavailableEvent(g) : g \in GuildIds}
    \cup {GuildUpdateEvent(g, Optional(cached, GatewayGuild(g, TRUE))) : g \in GuildIds, cached \in BOOLEAN}
    \cup {BanCreateEvent(g, u) : g \in GuildIds, u \in UserIds}
    \cup {BanDeleteEvent(g, u) : g \in GuildIds, u \in UserIds}
    \cup {EmojisUpdateEvent(g, old) : g \in GuildIds, old \in {None, List(<<>>)}}
    \cup {IntegrationCreateEvent(g, a) : g \in GuildIds, a \in {None, IntegrationApplication}}
    \cup {IntegrationDeleteEvent(g, a) : g \in GuildIds, a \in {None, Snowflake(1)}}
    \cup {IntegrationUpdateEvent(g, a) : g \in GuildIds, a \in {None, IntegrationApplication}}
    \cup {PresenceUpdateEvent(g, u, Optional(cached, MemberPresence(g, u)), None) : g \in GuildIds, u \in UserIds, cached \in BOOLEAN}

\* guild_id, with an integration event answering the id of its integration.
guild_id_of_integration_by_id(e) ==
    IF e.type \in {"GuildAvailableEvent", "GuildUpdateEvent"} THEN e.guild.id
    ELSE IF e.type \in {"IntegrationCreateEvent", "IntegrationUpdateEvent"} THEN e.integration.id
    ELSE IF e.type = "PresenceUpdateEvent" THEN e.presence.guild_id
    ELSE e.guild_id

\* The guild_id property of event e.
guild_id(e) ==
    IF e.type \in {"GuildAvailableEvent", "GuildUpdateEvent"} THEN e.guild.id
    ELSE IF e.type \in {"IntegrationCreateEvent", "IntegrationUpdateEvent"} THEN e.integration.guild_id
    ELSE IF e.type = "PresenceUpdateEvent" THEN e.presence.guild_id
    ELSE e.guild_id

\* PresenceUpdateEvent.user_id and BanCreateEvent.user_id
user_id(e) == IF e.type = "BanCreateEvent" THEN e.user.id ELSE e.presence.user_id

\* The id property of an integration event: of its integration, or the field of
\* IntegrationDeleteEvent.
IntegrationEvent_id(e) == IF e.type = "IntegrationDeleteEvent" THEN e.id ELSE e.integration.id

\* The application_id property of an integration event.
IntegrationEvent_application_id(e) ==
    IF e.type = "IntegrationDeleteEvent" THEN e.application_id
    ELSE IF e.integration.application # None THEN e.integration.application.id ELSE None

\* A request to the REST client.
Request(method, args) == [method |-> method, args |-> args]

\* The outcome of a coroutine that awaits one REST request: the calling task is
\* suspended until the REST client answers.
Awaiting(request) == [status |-> "awaiting", result |-> None, reads |-> <<>>, rest |-> <<request>>]

\* GuildEvent.fetch_guild
GuildEvent_fetch_guild(e) == Awaiting(Request("fetch_guild", <<guild_id(e)>>))

\* fetch_guild as it is resolved on event e: GuildLeaveEvent declares an override
\* with an empty body for the type checker only.
fetch_guild(e) ==
    IF e.type = "GuildLeaveEvent" /\ TYPE_CHECKING THEN Returned(None, <<>>)
    ELSE GuildEvent_fetch_guild(e)

\* GuildEvent.fetch_guild_preview
fetch_guild_preview(e) == Awaiting(Request("fetch_guild_preview", <<guild_id(e)>>))

\* get_guild, asking the REST client for the guild when the cache has none.
get_guild_fetch_on_miss(e) ==
    IF ~IsCacheAware(app) THEN Returned(None, <<>>)
    ELSE IF cache_get_available_guild(guild_id(e)) # None
    THEN Returned(cache_get_available_guild(guild_id(e)), <<Lookup("get_available_guild", <<guild_id(e)>>)>>)
    ELSE IF cache_get_unavailable_guild(guild_id(e)) # None
    THEN Returned(cache_get_unavailable_guild(guild_id(e)),
                  <<Lookup("get_available_guild", <<guild_id(e)>>), Lookup("get_unavailable_guild", <<guild_id(e)>>)>>)
    ELSE [status |-> "awaiting", result |-> None,
          reads |-> <<Lookup("get_available_guild", <<guild_id(e)>>), Lookup("get_unavailable_guild", <<guild_id(e)>>)>>,
          rest |-> <<Request("fetch_guild", <<guild_id(e)>>)>>]

\* get_guild, looking in the unavailable guilds before the available ones.
get_guild_unavailable_first(e) ==
    IF ~IsCacheAware(app) THEN Returned(None, <<>>)
    ELSE IF cache_get_unavailable_guild(guild_id(e)) # None
    THEN Returned(cache_get_unavailable_guild(guild_id(e)), <<Lookup("get_unavailable_guild", <<guild_id(e)>>)>>)
    ELSE Returned(cache_get_available_guild(guild_id(e)),
                  <<Lookup("get_unavailable_guild", <<guild_id(e)>>), Lookup("get_available_guild", <<guild_id(e)>>)>>)

\* get_guild, falling back on the old snapshot the event carries when the cache
\* has no guild.
get_guild_or_old_guild(e) ==
    LET old == IF e.type \in {"GuildLeaveEvent", "GuildUpdateEvent"} THEN e.old_guild ELSE None
    IN  IF ~IsCacheAware(app) THEN Returned(old, <<>>)
        ELSE LET available == cache_get_available_guild(guild_id(e))
                 unavailable == cache_get_unavailable_guild(guild_id(e))
             IN  IF available # None
                 THEN Returned(available, <<Lookup("get_available_guild", <<guild_id(e)>>)>>)
                 ELSE Returned(IF unavailable # None THEN unavailable ELSE old,
                               <<Lookup("get_available_guild", <<guild_id(e)>>), Lookup("get_unavailable_guild", <<guild_id(e)>>)>>)

\* GuildEvent.get_guild
get_guild(e) ==
    IF ~IsCacheAware(app) THEN Returned(None, <<>>)
    ELSE LET available == cache_get_available_guild(guild_id(e))
         IN  IF available # None
             THEN Returned(available, <<Lookup("get_available_guild", <<guild_id(e)>>)>>)
             ELSE Returned(cache_get_unavailable_guild(guild_id(e)),
                           <<Lookup("get_available_guild", <<guild_id(e)>>), Lookup("get_unavailable_guild", <<guild_id(e)>>)>>)

\* BanEvent.fetch_user
BanEvent_fetch_user(e) == Awaiting(Request("fetch_user", <<e.user>>))

\* BanCreateEvent.fetch_ban
fetch_ban(e) == Awaiting(Request("fetch_ban", <<guild_id(e), e.user>>))

\* EmojisUpdateEvent.fetch_emojis
fetch_emojis(e) == Awaiting(Request("fetch_guild_emojis", <<guild_id(e)>>))

\* IntegrationEvent.fetch_integrations
fetch_integrations(e) == Awaiting(Request("fetch_integrations", <<guild_id(e)>>))

\* get_user, finding nothing when it is called twice in a row, as a lookup that
\* takes what it returns out of the cache would have it.
get_user_taking(e) ==
    IF ~IsCacheAware(app) \/ frame.op = "get_user" THEN Returned(None, <<>>)
    ELSE Returned(cache_get_user(user_id(e)), <<Lookup("get_user", <<user_id(e)>>)>>)

\* PresenceUpdateEvent.get_user
get_user(e) ==
    IF ~IsCacheAware(app) THEN Returned(None, <<>>)
    ELSE Returned(cache_get_user(user_id(e)), <<Lookup("get_user", <<user_id(e)>>)>>)

\* fetch_user, returning the cached user when there is one.
fetch_user_cached_shortcut(e) ==
    IF IsCacheAware(app) /\ cache_get_user(user_id(e)) # None
    THEN Returned(cache_get_user(user_id(e)), <<Lookup("get_user", <<user_id(e)>>)>>)
    ELSE Awaiting(Request("fetch_user", <<user_id(e)>>))

\* PresenceUpdateEvent.fetch_user
PresenceUpdateEvent_fetch_user(e) == Awaiting(Request("fetch_user", <<user_id(e)>>))

\* fetch_user as it is resolved on event e.
fetch_user(e) == IF e.type = "PresenceUpdateEvent" THEN PresenceUpdateEvent_fetch_user(e) ELSE BanEvent_fetch_user(e)

\* PartialMessage.fetch_channel
fetch_channel(m) == Awaiting(Request("fetch_channel", <<m.channel_id>>))


\* Message mutators (messages.py). The arguments of a call are a record of the
\* parameters the caller can give; a parameter the caller leaves out has its
\* default.
\* edit, leaving mentions_reply out of the request.
edit_without_mentions_reply(m, a) ==
    Awaiting(Request("edit_message",
        [message |-> m.id, channel |-> m.channel_id, content |-> a.content,
         attachment |-> a.attachment, attachments |-> a.attachments,
         component |-> a.component, components |-> a.components,
         embed |-> a.embed, embeds |-> a.embeds,
         replace_attachments |-> a.replace_attachments,
         mentions_everyone |-> a.mentions_everyone, mentions_reply |-> UNDEFINED,
         user_mentions |-> a.user_mentions, role_mentions |-> a.role_mentions,
         flags |-> a.flags]))

\* PartialMessage.edit
edit(m, a) ==
    Awaiting(Request("edit_message",
        [message |-> m.id, channel |-> m.channel_id, content |-> a.content,
         attachment |-> a.attachment, attachments |-> a.attachments,
         component |-> a.component, components |-> a.components,
         embed |-> a.embed, embeds |-> a.embeds,
         replace_attachments |-> a.replace_attachments,
         mentions_everyone |-> a.mentions_everyone, mentions_reply |-> a.mentions_reply,
         user_mentions |-> a.user_mentions, role_mentions |-> a.role_mentions,
         flags |-> a.flags]))

\* respond, passing reply on as the caller gave it.
respond_reply_as_given(m, a) ==
    LET reply == a.reply
    IN  Awaiting(Request("create_message",
            [channel |-> m.channel_id, content |-> a.content,
             attachment |-> a.attachment, attachments |-> a.attachments,
             component |-> a.component, components |-> a.components,
             embed |-> a.embed, embeds |-> a.embeds,
             nonce |-> a.nonce, tts |-> a.tts, reply |-> reply,
             mentions_everyone |-> a.mentions_everyone, user_mentions |-> a.user_mentions,
             role_mentions |-> a.role_mentions, mentions_reply |-> a.mentions_reply]))

\* PartialMessage.respond
respond(m, a) ==
    LET reply == IF a.reply = Bool(TRUE) THEN m
                 ELSE IF a.reply = Bool(FALSE) THEN UNDEFINED
                 ELSE a.reply
    IN  Awaiting(Request("create_message",
            [channel |-> m.channel_id, content |-> a.content,
             attachment |-> a.attachment, attachments |-> a.attachments,
             component |-> a.component, components |-> a.components,
             embed |-> a.embed, embeds |-> a.embeds,
             nonce |-> a.nonce, tts |-> a.tts, reply |-> reply,
             mentions_everyone |-> a.mentions_everyone, user_mentions |-> a.user_mentions,
             role_mentions |-> a.role_mentions, mentions_reply |-> a.mentions_reply]))

\* delete, with the two positional arguments in the other order.
delete_message_then_channel(m) == Awaiting(Request("delete_message", <<m.id, m.channel_id>>))

\* PartialMessage.delete
delete(m) == Awaiting(Request("delete_message", <<m.channel_id, m.id>>))

\* PartialMessage.add_reaction
add_reaction(m, a) ==
    Awaiting(Request("add_reaction", [channel |-> m.channel_id, message |-> m.id, emoji |-> a.emoji, emoji_id |-> a.emoji_id]))

\* remove_reaction, removing the reaction of the bot whatever user is given.
remove_reaction_own_only(m, a) ==
    Awaiting(Request("delete_my_reaction",
        [channel |-> m.channel_id, message |-> m.id, emoji |-> a.emoji, emoji_id |-> a.emoji_id]))

\* PartialMessage.remove_reaction
remove_reaction(m, a) ==
    IF a.user = UNDEFINED
    THEN Awaiting(Request("delete_my_reaction",
            [channel |-> m.channel_id, message |-> m.id, emoji |-> a.emoji, emoji_id |-> a.emoji_id]))
    ELSE Awaiting(Request("delete_reaction",
            [channel |-> m.channel_id, message |-> m.id, emoji |-> a.emoji, emoji_id |-> a.emoji_id, user |-> a.user]))

\* remove_all_reactions, removing every reaction only when emoji_id is left out
\* as well.
remove_all_reactions_unless_emoji_id(m, a) ==
    IF a.emoji = UNDEFINED /\ a.emoji_id = UNDEFINED
    THEN Awaiting(Request("delete_all_reactions", [channel |-> m.channel_id, message |-> m.id]))
    ELSE Awaiting(Request("delete_all_reactions_for_emoji",
            [channel |-> m.channel_id, message |-> m.id, emoji |-> a.emoji, emoji_id |-> a.emoji_id]))

\* PartialMessage.remove_all_reactions
remove_all_reactions(m, a) ==
    IF a.emoji = UNDEFINED
    THEN Awaiting(Request("delete_all_reactions", [channel |-> m.channel_id, message |-> m.id]))
    ELSE Awaiting(Request("delete_all_reactions_for_emoji",
            [channel |-> m.channel_id, message |-> m.id, emoji |-> a.emoji, emoji_id |-> a.emoji_id]))

\* What a caller passes for a mention-control parameter.
UndefinedOrBool == {UNDEFINED, Bool(TRUE), Bool(FALSE)}

UserMentionsArgs == {UNDEFINED, Bool(TRUE), Bool(FALSE)} \cup {List(<<u>>) : u \in UserIds}

RoleMentionsArgs == {UNDEFINED, Bool(TRUE), Bool(FALSE)} \cup {List(<<r>>) : r \in RoleIds}

Contents == {UNDEFINED, Str("text")}

\* The calls of edit: with or without content and with every choice of the
\* mention-control parameters; the other parameters are left at their defaults.
EditArgs ==
    {[content |-> c, attachment |-> UNDEFINED, attachments |-> UNDEFINED, component |-> UNDEFINED,
      components |-> UNDEFINED, embed |-> UNDEFINED, embeds |-> UNDEFINED, replace_attachments |-> Bool(FALSE),
      mentions_everyone |-> me, mentions_reply |-> mr, user_mentions |-> um, role_mentions |-> rm,
      flags |-> UNDEFINED] :
        c \in Contents, me \in UndefinedOrBool, mr \in UndefinedOrBool, um \in UserMentionsArgs, rm \in RoleMentionsArgs}

\* What a caller passes for reply: a bool, nothing, the id of a message or a message.
ReplyArgs == {UNDEFINED, Bool(TRUE), Bool(FALSE)} \cup MessageIds \cup {[type |-> "PartialMessage", id |-> id] : id \in MessageIds}

\* The calls of respond: with or without content and with every choice of reply
\* and of mentions_reply; the other parameters are left at their defaults.
RespondArgs ==
    {[content |-> c, attachment |-> UNDEFINED, attachments |-> UNDEFINED, component |-> UNDEFINED,
      components |-> UNDEFINED, embed |-> UNDEFINED, embeds |-> UNDEFINED, nonce |-> UNDEFINED, tts |-> UNDEFINED,
      reply |-> reply, mentions_everyone |-> UNDEFINED, mentions_reply |-> mr, user_mentions |-> UNDEFINED,
      role_mentions |-> UNDEFINED] :
        c \in Contents, reply \in ReplyArgs, mr \in UndefinedOrBool}

\* A unicode emoji, or the name of a custom emoji with or without its id.
Emojis == {Str("ok_hand"), Str("rooAYAYA")}

EmojiIds == {UNDEFINED, Snowflake(1)}

AddReactionArgs == {[emoji |-> e, emoji_id |-> i] : e \in Emojis, i \in EmojiIds}

RemoveReactionArgs == {[emoji |-> e, emoji_id |-> i, user |-> u] : e \in Emojis, i \in EmojiIds, u \in {UNDEFINED} \cup UserIds}

RemoveAllReactionsArgs == {[emoji |-> e, emoji_id |-> i] : e \in {UNDEFINED} \cup Emojis, i \in EmojiIds}

\* The REST client's answers.
HTTPErrors == {[type |-> "NotFoundError"], [type |-> "ForbiddenError"], [type |-> "UnauthorizedError"],
               [type |-> "BadRequestError"], [type |-> "InternalServerError"], [type |-> "RateLimitedError"]}

\* The id of a snowflake or of an entity given in its place.
AsId(x) == IF x.type = "Snowflake" THEN x ELSE x.id

\* What the REST client answers to a request it serves.
rest_response(request) ==
    IF request.method = "fetch_guild" THEN [type |-> "RESTGuild", id |-> request.args[1]]
    ELSE IF request.method = "fetch_guild_preview" THEN [type |-> "GuildPreview", id |-> request.args[1]]
    ELSE IF request.method = "fetch_user" THEN User(AsId(request.args[1]))
    ELSE IF request.method = "fetch_ban" THEN [type |-> "GuildBan", user |-> User(AsId(request.args[2]))]
    ELSE IF request.method = "fetch_channel" THEN [type |-> "PartialChannel", id |-> request.args[1]]
    ELSE IF request.method = "edit_message" THEN [type |-> "Message", id |-> AsId(request.args.message), channel_id |-> AsId(request.args.channel)]
    ELSE IF request.method = "create_message" THEN [type |-> "Message", id |-> Snowflake(0), channel_id |-> AsId(request.args.channel)]
    ELSE IF request.method \in {"fetch_guild_emojis", "fetch_integrations"} THEN List(<<>>)
    ELSE None

\* The handler task: the method it has called on the event or message, how far the
\* call has got, its result, the cache lookups it has made and the REST requests it
\* has issued.
Idle == [op |-> "none", status |-> "idle", result |-> None, reads |-> <<>>, rest |-> <<>>]

Invoke(op, outcome) ==
    [op |-> op, status |-> outcome.status, result |-> outcome.result, reads |-> outcome.reads, rest |-> outcome.rest]

\* The messages without mention data, as a partial update carries them.
BareMessages == {PartialMessage(id, c, None, UNDEFINED, UNDEFINED) : id \in MessageIds, c \in ChannelIds}

\* Messages that mention one user and one role.
SingleMentionMessages ==
    {PartialMessage(Snowflake(1), Snowflake(1), g, UsersMapping(<<u>>), List(<<r>>)) :
        g \in GuildIds \cup {None}, u \in UserIds, r \in RoleIds}

\* The messages whose mentions get_members and get_roles resolve: the mentioned
\* users with any mentioned roles unspecified or empty, or the mentioned roles
\* with any mentioned users unspecified or empty.
MentionMessages ==
    {PartialMessage(Snowflake(1), Snowflake(1), g, users, role_ids) :
        g \in GuildIds \cup {None},
        users \in {UNDEFINED} \cup {UsersMapping(ids) : ids \in DistinctSeqs(UserIds)},
        role_ids \in {UNDEFINED, List(<<>>)}}
    \cup
    {PartialMessage(Snowflake(1), Snowflake(1), g, users, role_ids) :
        g \in GuildIds \cup {None},
        users \in {UNDEFINED, UsersMapping(<<>>)},
        role_ids \in {UNDEFINED} \cup {List(ids) : ids \in SeqsUpTo(RoleIds, MaxLen)}}

\* The dispatch layer decodes a payload and constructs its event.
Dispatch ==
    /\ frame.status = "idle"
    /\ \E e \in Events : event' = e
    /\ message' = None
    /\ UNCHANGED <<app, cache, frame, entity, tasks>>

\* The transport layer decodes a message.
DispatchMessage ==
    /\ frame.status = "idle"
    /\ \E m \in BareMessages \cup SingleMentionMessages : message' = m
    /\ event' = None
    /\ UNCHANGED <<app, cache, frame, entity, tasks>>

\* Other tasks fill and evict the cache while the handler is not running, or
\* while it is between two lookups of a loop.
CachePut(store, key) ==
    /\ IsCacheAware(app)
    /\ frame.status \in {"idle", "awaiting", "running"}
    /\ key \notin cache[store]
    /\ CacheSize(cache) < MaxCached
    /\ cache' = [cache EXCEPT ![store] = @ \cup {key}]
    /\ UNCHANGED <<app, event, message, frame, entity, tasks>>

CacheEvict(store, key) ==
    /\ IsCacheAware(app)
    /\ frame.status \in {"idle", "awaiting", "running"}
    /\ key \in cache[store]
    /\ cache' = [cache EXCEPT ![store] = @ \ {key}]
    /\ UNCHANGED <<app, event, message, frame, entity, tasks>>

CacheGuilds ==
    \E g \in GuildIds, store \in {"available", "unavailable"} :
        \/ CachePut(store, g)
        \/ CacheEvict(store, g)

CacheUsers ==
    \E u \in UserIds :
        \/ CachePut("users", u)
        \/ CacheEvict("users", u)

CacheMembers ==
    \E g \in GuildIds, u \in UserIds :
        \/ CachePut("members", <<g, u>>)
        \/ CacheEvict("members", <<g, u>>)

CacheRoles ==
    \E r \in RoleIds :
        \/ CachePut("roles", r)
        \/ CacheEvict("roles", r)

\* The handler calls a method of the event.
CallOnEvent(op, types, outcome) ==
    /\ frame.status = "idle"
    /\ event # None
    /\ event.type \in types
    /\ frame' = Invoke(op, outcome)
    /\ UNCHANGED <<app, cache, event, message, entity, tasks>>

\* The handler calls a method of the message or of its mentions.
CallOnMessage(op, outcome) ==
    /\ frame.status = "idle"
    /\ message # None
    /\ frame' = Invoke(op, outcome)
    /\ UNCHANGED <<app, cache, event, message, entity, tasks>>

CallGetGuild == CallOnEvent("get_guild", GuildEventTypes, get_guild(event))

CallFetchGuild == CallOnEvent("fetch_guild", GuildEventTypes, fetch_guild(event))

CallFetchGuildPreview == CallOnEvent("fetch_guild_preview", GuildEventTypes, fetch_guild_preview(event))

CallFetchUser == CallOnEvent("fetch_user", BanEventTypes \cup {"PresenceUpdateEvent"}, fetch_user(event))

CallFetchBan == CallOnEvent("fetch_ban", {"BanCreateEvent"}, fetch_ban(event))

CallFetchEmojis == CallOnEvent("fetch_emojis", {"EmojisUpdateEvent"}, fetch_emojis(event))

CallFetchIntegrations == CallOnEvent("fetch_integrations", IntegrationEventTypes, fetch_integrations(event))

\* The handler reads an id property of the event.
CallId ==
    \/ CallOnEvent("guild_id", GuildEventTypes \cup {"PresenceUpdateEvent"}, Returned(guild_id(event), <<>>))
    \/ CallOnEvent("user_id", {"BanCreateEvent", "PresenceUpdateEvent"}, Returned(user_id(event), <<>>))
    \/ CallOnEvent("id", IntegrationEventTypes, Returned(IntegrationEvent_id(event), <<>>))
    \/ CallOnEvent("application_id", IntegrationEventTypes, Returned(IntegrationEvent_application_id(event), <<>>))

CallGetUser == CallOnEvent("get_user", {"PresenceUpdateEvent"}, get_user(event))

\* The handler calls get_user again as soon as the first call has returned: no
\* other task runs between the two calls. first is what the first call returned.
CallGetUserAgain ==
    /\ frame.op = "get_user"
    /\ frame.status = "returned"
    /\ "first" \notin DOMAIN frame
    /\ LET outcome == get_user(event)
       IN  frame' = [op |-> "get_user", status |-> outcome.status, result |-> outcome.result,
                     reads |-> outcome.reads, rest |-> outcome.rest, first |-> frame.result]
    /\ UNCHANGED <<app, cache, event, message, entity, tasks>>

CallFetchChannel == CallOnMessage("fetch_channel", fetch_channel(message))

CallGetMembers == CallOnMessage("get_members", get_members(message))

CallGetRoles == CallOnMessage("get_roles", get_roles(message))

\* The request with the answer the REST client gave to it.
Answered(request, answer) == [method |-> request.method, args |-> request.args, answer |-> answer]

\* The methods that return what they await; the others await and return None.
ReturnsResponse == {"fetch_guild", "fetch_guild_preview", "fetch_user", "fetch_ban", "fetch_emojis",
                    "fetch_integrations", "fetch_channel", "edit", "respond"}

\* resume, turning an error of the REST client into a return of None.
resume_swallowing_errors(f, answer) ==
    [f EXCEPT !.status = "returned",
              !.result = IF answer \notin HTTPErrors /\ f.op \in ReturnsResponse THEN answer ELSE None]

\* The suspended call f resumes with the REST client's answer: `await` raises the
\* error it is given, or evaluates to the response.
resume(f, answer) ==
    [f EXCEPT !.status = IF answer \in HTTPErrors THEN "raised" ELSE "returned",
              !.result = IF answer \in HTTPErrors \/ f.op \in ReturnsResponse THEN answer ELSE None]

\* The REST client serves the pending request: the suspended call resumes and
\* returns the response.
RestRespond ==
    /\ frame.status = "awaiting"
    /\ LET request == frame.rest[Len(frame.rest)]
           answer == rest_response(request)
       IN  frame' = resume([frame EXCEPT !.rest[Len(frame.rest)] = Answered(request, answer)], answer)
    /\ UNCHANGED <<app, cache, event, message, entity, tasks>>

\* The REST client fails the pending request: the suspended call resumes and
\* raises the error.
RestFail ==
    /\ frame.status = "awaiting"
    /\ \E error \in HTTPErrors :
        frame' = resume([frame EXCEPT !.rest[Len(frame.rest)] = Answered(frame.rest[Len(frame.rest)], error)], error)
    /\ UNCHANGED <<app, cache, event, message, entity, tasks>>

\* The handler is done with the call's outcome.
Return ==
    /\ frame.status \in {"returned", "raised"}
    /\ frame' = Idle
    /\ UNCHANGED <<app, cache, event, message, entity, tasks>>

Init ==
    /\ app \in Apps
    /\ cache = EmptyCache
    /\ event = None
    /\ message = None
    /\ frame = Idle
    /\ entity = None
    /\ tasks = <<>>

\* Handlers of guild events and of messages.
Next ==
    \/ Dispatch
    \/ DispatchMessage
    \/ CacheGuilds
    \/ CacheUsers
    \/ CallGetGuild
    \/ CallFetchGuild
    \/ CallFetchGuildPreview
    \/ CallFetchUser
    \/ CallFetchBan
    \/ CallFetchEmojis
    \/ CallFetchIntegrations
    \/ CallId
    \/ CallGetUser
    \/ CallGetUserAgain
    \/ CallFetchChannel
    \/ CallGetMembers
    \/ CallGetRoles
    \/ RestRespond
    \/ RestFail
    \/ Return

Spec == Init /\ [][Next]_vars

\* A handler that resolves the mentions of the message it was given.
InitMentions ==
    /\ app \in Apps
    /\ cache = EmptyCache
    /\ event = None
    /\ message \in MentionMessages
    /\ frame = Idle
    /\ entity = None
    /\ tasks = <<>>

NextMentions ==
    \/ CacheMembers
    \/ CacheRoles
    \/ CallGetMembers
    \/ CallGetRoles
    \/ Return

SpecMentions == InitMentions /\ [][NextMentions]_vars

\* get_members and get_roles one lookup at a time, with other tasks free to
\* change the cache between two lookups. The call enters the loop of
\* _map_cache_maybe_discover where the method does, and returns at once where
\* the method returns without a lookup.
EntersLoop(op, m) ==
    /\ IsCacheAware(app)
    /\ m.guild_id # None
    /\ IF op = "get_members" THEN m.mentions.users # UNDEFINED ELSE m.mentions.role_ids # UNDEFINED

StartDiscover ==
    \E op \in {"get_members", "get_roles"} :
        /\ frame.status = "idle"
        /\ message # None
        /\ frame' = IF EntersLoop(op, message)
                     THEN [op |-> op, status |-> "running", result |-> Dict(EmptyItems), reads |-> <<>>, rest |-> <<>>,
                           ids |-> IF op = "get_members" THEN message.mentions.users.keys
                                   ELSE message.mentions.role_ids.items,
                           returns |-> <<>>]
                     ELSE Invoke(op, IF op = "get_members" THEN get_members(message) ELSE get_roles(message))
        /\ UNCHANGED <<app, cache, event, message, entity, tasks>>

\* One pass of the loop body: a single lookup of the next id in the cache as it
\* is now, stored unless it is None. returns keeps what each lookup returned.
DiscoverStep ==
    /\ frame.status = "running"
    /\ frame.ids # <<>>
    /\ LET id_ == Head(frame.ids)
           obj == IF frame.op = "get_members" THEN cache_get_member(message.guild_id, id_) ELSE cache_get_role(id_)
           call == IF frame.op = "get_members" THEN Lookup("get_member", <<message.guild_id, id_>>)
                   ELSE Lookup("get_role", <<id_>>)
       IN  frame' = [frame EXCEPT !.ids = Tail(@),
                                  !.result = Dict(discover(<<id_>>, [x \in {id_} |-> obj], frame.result.items)),
                                  !.reads = Append(@, call),
                                  !.returns = Append(@, obj)]
    /\ UNCHANGED <<app, cache, event, message, entity, tasks>>

\* The loop is over: the method returns the results.
DiscoverReturn ==
    /\ frame.status = "running"
    /\ frame.ids = <<>>
    /\ frame' = [frame EXCEPT !.status = "returned"]
    /\ UNCHANGED <<app, cache, event, message, entity, tasks>>

\* Other tasks cache and evict the members and roles the message mentions: the
\* loop looks up no other key.
CacheMentioned ==
    /\ message.guild_id # None
    /\ \/ /\ message.mentions.users # UNDEFINED
          /\ \E u \in Range(message.mentions.users.keys) :
                \/ CachePut("members", <<message.guild_id, u>>)
                \/ CacheEvict("members", <<message.guild_id, u>>)
       \/ /\ message.mentions.role_ids # UNDEFINED
          /\ \E r \in Range(message.mentions.role_ids.items) :
                \/ CachePut("roles", r)
                \/ CacheEvict("roles", r)

NextDiscover ==
    \/ CacheMentioned
    \/ StartDiscover
    \/ DiscoverStep
    \/ DiscoverReturn
    \/ Return

SpecDiscover == InitMentions /\ [][NextDiscover]_vars

\* The handler calls a method of the message with arguments a.
CallWithArgs(op, a, outcome) ==
    /\ frame.status = "idle"
    /\ message # None
    /\ frame' = [op |-> op, status |-> outcome.status, result |-> outcome.result, reads |-> outcome.reads,
                 rest |-> outcome.rest, args |-> a]
    /\ UNCHANGED <<app, cache, event, message, entity, tasks>>

CallEdit == \E a \in EditArgs : CallWithArgs("edit", a, edit(message, a))

CallRespond == \E a \in RespondArgs : CallWithArgs("respond", a, respond(message, a))

CallDelete == CallOnMessage("delete", delete(message))

CallAddReaction == \E a \in AddReactionArgs : CallWithArgs("add_reaction", a, add_reaction(message, a))

CallRemoveReaction == \E a \in RemoveReactionArgs : CallWithArgs("remove_reaction", a, remove_reaction(message, a))

CallRemoveAllReactions == \E a \in RemoveAllReactionsArgs : CallWithArgs("remove_all_reactions", a, remove_all_reactions(message, a))

\* The transport layer decodes a partial message.
DispatchBare ==
    /\ frame.status = "idle"
    /\ \E m \in BareMessages : message' = m
    /\ event' = None
    /\ UNCHANGED <<app, cache, frame, entity, tasks>>

\* Handlers that call the REST client: the fetch_ methods of events and
\* messages and the mutators of messages.
NextRest ==
    \/ Dispatch
    \/ DispatchBare
    \/ CallFetchGuild
    \/ CallFetchGuildPreview
    \/ CallFetchUser
    \/ CallFetchBan
    \/ CallFetchEmojis
    \/ CallFetchIntegrations
    \/ CallFetchChannel
    \/ CallEdit
    \/ CallRespond
    \/ CallDelete
    \/ CallAddReaction
    \/ CallRemoveReaction
    \/ CallRemoveAllReactions
    \/ RestRespond
    \/ RestFail
    \/ Return

SpecRest == Init /\ [][NextRest]_vars


\* ---------------------------------------------------------------------------
\* Handlers that run concurrently on one event or message. The dispatch layer
\* constructs the object once and hands it to every registered handler; each
\* handler runs as a task of its own on the event loop.
Handlers == {"first", "second"}

\* The events whose guild_id is a field of the event itself.
HandlerEvents == {e \in Events : e.type \in {"GuildLeaveEvent", "GuildUnavailableEvent", "EmojisUpdateEvent"}}

\* The object the handlers were given.
Subject == IF event # None THEN event ELSE message

\* A handler task: seen is what the handler last read from the object.
Pending == [status |-> "pending", op |-> "none", result |-> None, rest |-> <<>>, seen |-> None]

Done == [status |-> "done", op |-> "none", result |-> None, rest |-> <<>>, seen |-> None]

\* A task that can run only while no other task is suspended, as a blocking
\* call would have it.
Runnable_while_none_suspended(h) ==
    /\ tasks[h].status = "running"
    /\ \A o \in Handlers : tasks[o].status # "awaiting"

\* A task takes a step of its own when it is not suspended: an await suspends
\* the coroutine that executes it and no other.
Runnable(h) == tasks[h].status = "running"

\* Cancelling a task, with the answer of the REST client still delivered.
cancel_delivering_result(t) ==
    [t EXCEPT !.status = "cancelled", !.result = rest_response(t.rest[Len(t.rest)])]

\* Cancelling a suspended task: the await raises CancelledError in the
\* coroutine, which has no handler for it and holds nothing to roll back.
cancel(t) == [t EXCEPT !.status = "cancelled"]

\* The dispatch loop hands the object to handler h.
Deliver(h) ==
    /\ tasks[h].status = "pending"
    /\ tasks' = [tasks EXCEPT ![h].status = "running"]
    /\ UNCHANGED <<app, cache, event, message, frame, entity>>

\* Handler h reads the fields of the object.
HandlerRead(h) ==
    /\ Runnable(h)
    /\ tasks[h].seen # Subject
    /\ tasks' = [tasks EXCEPT ![h].seen = Subject]
    /\ UNCHANGED <<app, cache, event, message, frame, entity>>

\* Handler h assigns to a field of the object: the classes are defined without
\* frozen, so the assignment is carried out.
HandlerAssign(h) ==
    /\ Runnable(h)
    /\ \/ /\ event # None
          /\ \E g \in GuildIds \ {event.guild_id} : event' = [event EXCEPT !.guild_id = g]
          /\ UNCHANGED message
       \/ /\ message # None
          /\ \E c \in ChannelIds \ {message.channel_id} : message' = [message EXCEPT !.channel_id = c]
          /\ UNCHANGED event
    /\ UNCHANGED <<app, cache, frame, entity, tasks>>

\* Handler h calls op, whose outcome is a pending request.
Suspend(h, op, outcome) ==
    /\ Runnable(h)
    /\ tasks' = [tasks EXCEPT ![h] = [status |-> outcome.status, op |-> op, result |-> outcome.result,
                                      rest |-> outcome.rest, seen |-> tasks[h].seen]]
    /\ UNCHANGED <<app, cache, event, message, frame, entity>>

\* Handler h calls a fetch_ method of the object.
HandlerFetch(h) ==
    \/ event # None /\ Suspend(h, "fetch_guild", fetch_guild(event))
    \/ event # None /\ Suspend(h, "fetch_guild_preview", fetch_guild_preview(event))
    \/ event # None /\ event.type = "EmojisUpdateEvent" /\ Suspend(h, "fetch_emojis", fetch_emojis(event))
    \/ message # None /\ Suspend(h, "fetch_channel", fetch_channel(message))

\* The REST client answers the request of handler h.
RestAnswer(h) ==
    /\ tasks[h].status = "awaiting"
    /\ LET request == tasks[h].rest[Len(tasks[h].rest)]
           answer == rest_response(request)
       IN  tasks' = [tasks EXCEPT ![h] = resume([tasks[h] EXCEPT !.rest[Len(tasks[h].rest)] = Answered(request, answer)], answer)]
    /\ UNCHANGED <<app, cache, event, message, frame, entity>>

\* The REST client fails the request of handler h.
RestError(h) ==
    /\ tasks[h].status = "awaiting"
    /\ \E error \in HTTPErrors :
        tasks' = [tasks EXCEPT ![h] = resume([tasks[h] EXCEPT !.rest[Len(tasks[h].rest)] =
                                                  Answered(tasks[h].rest[Len(tasks[h].rest)], error)], error)]
    /\ UNCHANGED <<app, cache, event, message, frame, entity>>

\* The task of handler h is cancelled while its call is suspended.
Cancel(h) ==
    /\ tasks[h].status = "awaiting"
    /\ tasks' = [tasks EXCEPT ![h] = cancel(tasks[h])]
    /\ UNCHANGED <<app, cache, event, message, frame, entity>>

\* Handler h ends.
Finish(h) ==
    /\ tasks[h].status \in {"running", "returned", "raised", "cancelled"}
    /\ tasks' = [tasks EXCEPT ![h] = Done]
    /\ UNCHANGED <<app, cache, event, message, frame, entity>>

InitHandlers ==
    /\ app \in Apps
    /\ cache = EmptyCache
    /\ \/ event \in HandlerEvents /\ message = None
       \/ event = None /\ message \in BareMessages
    /\ frame = Idle
    /\ entity = None
    /\ tasks = [h \in Handlers |-> Pending]

NextHandlers ==
    \E h \in Handlers :
        \/ Deliver(h)
        \/ HandlerAssign(h)
        \/ HandlerFetch(h)
        \/ RestAnswer(h)
        \/ RestError(h)
        \/ Cancel(h)
        \/ Finish(h)

SpecHandlers == InitHandlers /\ [][NextHandlers]_vars

\* The REST client answers or fails every request it was sent.
FairSpecHandlers ==
    SpecHandlers /\ \A h \in Handlers : WF_vars(RestAnswer(h) \/ RestError(h))

\* The same handlers, which also read the fields of the object they were given.
NextObserve ==
    \/ NextHandlers
    \/ \E h \in Handlers : HandlerRead(h)

SpecObserve == InitHandlers /\ [][NextObserve]_vars

\* ---------------------------------------------------------------------------
\* Methods of entities that neither await nor read the cache (messages.py).
Integer(n) == [type |-> "int", value |-> n]

\* An exception raised by a method that is not a coroutine.
Raised(error) == [status |-> "raised", result |-> error, reads |-> <<>>, rest |-> <<>>]

MessageApplication(id, cover_image_hash) ==
    [type |-> "MessageApplication", id |-> id, cover_image_hash |-> cover_image_hash]

\* The sizes a CDN URL can ask for, and the size make_cover_image_url asks for
\* when the caller names none.
SmallestSize == 16

LargestSize == 4096

DefaultSize == 4096

RECURSIVE IsPowerOfTwo(_)
IsPowerOfTwo(n) == n = 1 \/ (n > 1 /\ n % 2 = 0 /\ IsPowerOfTwo(n \div 2))

\* routes.CDN_APPLICATION_COVER.compile_to_file: the URL of the file on the CDN,
\* or an invalid-argument error for a format or a size the CDN does not serve.
compile_to_file(base_url, application_id, hash, size, file_format) ==
    IF file_format \notin {"png", "jpeg", "jpg", "webp"}
       \/ ~(size >= SmallestSize /\ size <= LargestSize /\ IsPowerOfTwo(size))
    THEN Raised([type |-> "InvalidArgument"])
    ELSE Returned([type |-> "URL", base_url |-> base_url, application_id |-> application_id,
                   hash |-> hash, size |-> size, file_format |-> file_format], <<>>)

\* make_cover_image_url, asking for the default size whatever the caller names.
make_cover_image_url_with_default_size(self, ext, size) ==
    IF self.cover_image_hash = None THEN Returned(None, <<>>)
    ELSE compile_to_file("CDN_URL", self.id, self.cover_image_hash, DefaultSize, ext)

\* MessageApplication.make_cover_image_url
make_cover_image_url(self, ext, size) ==
    IF self.cover_image_hash = None THEN Returned(None, <<>>)
    ELSE compile_to_file("CDN_URL", self.id, self.cover_image_hash, size, ext)

\* cover_image_url, asking for the smallest size.
cover_image_url_at_smallest_size(self) == make_cover_image_url(self, "png", SmallestSize)

\* MessageApplication.cover_image_url
cover_image_url(self) == make_cover_image_url(self, "png", DefaultSize)

\* What a caller passes for ext and for size.
Extensions == {"png", "jpeg", "jpg", "webp", "gif", "bmp"}

Sizes == {-16, 0, 8, 16, 24, 100, 128, 4096, 4097, 8192}

\* The handler calls a method of the entity with arguments a.
CallOnEntity(type, op, a, outcome) ==
    /\ frame.status = "idle"
    /\ entity.type = type
    /\ frame' = [op |-> op, status |-> outcome.status, result |-> outcome.result, reads |-> outcome.reads,
                 rest |-> outcome.rest, args |-> a]
    /\ UNCHANGED <<app, cache, event, message, entity, tasks>>

CallMakeCoverImageUrl ==
    \E ext \in Extensions, size \in Sizes :
        CallOnEntity("MessageApplication", "make_cover_image_url", [ext |-> ext, size |-> size],
                     make_cover_image_url(entity, ext, size))

CallCoverImageUrl ==
    CallOnEntity("MessageApplication", "cover_image_url", EmptyItems, cover_image_url(entity))

\* ActionRowComponent: a row of child components.
ActionRowComponent(components) == [type |-> "ActionRowComponent", components |-> components]

\* The children of a row, with a row among them.
Components_with_nested_row ==
    {[type |-> "ButtonComponent", custom_id |-> Str(id)] : id \in {"yes", "no"}}
    \cup {[type |-> "SelectMenuComponent", custom_id |-> Str("pick")]}
    \cup {[type |-> "ActionRowComponent", components |-> <<>>]}

\* The children a row can hold: buttons and select menus, the embedded
\* components, which are only ever found within a row.
Components ==
    {[type |-> "ButtonComponent", custom_id |-> Str(id)] : id \in {"yes", "no"}}
    \cup {[type |-> "SelectMenuComponent", custom_id |-> Str("pick")]}

\* __getitem__, with indexes counted from the start of the row only.
getitem_from_start_only(self, index) ==
    IF index >= 0 /\ index < Len(self.components) THEN Returned(self.components[index + 1], <<>>)
    ELSE Raised([type |-> "IndexError"])

\* ActionRowComponent.__getitem__ with an integer: self.components[index], where
\* an index below zero counts from the end of the sequence.
__getitem__(self, index) ==
    IF index >= 0 /\ index < Len(self.components) THEN Returned(self.components[index + 1], <<>>)
    ELSE IF index < 0 /\ index >= -Len(self.components)
    THEN Returned(self.components[Len(self.components) + index + 1], <<>>)
    ELSE Raised([type |-> "IndexError"])

\* ActionRowComponent.__iter__: the children in the order iteration yields them.
__iter__(self) == Returned(List(self.components), <<>>)

\* ActionRowComponent.__len__
__len__(self) == Returned(Integer(Len(self.components)), <<>>)

CallGetItem ==
    \E index \in -(MaxLen + 1) .. (MaxLen + 1) :
        CallOnEntity("ActionRowComponent", "__getitem__", [index |-> index], __getitem__(entity, index))

CallIter == CallOnEntity("ActionRowComponent", "__iter__", EmptyItems, __iter__(entity))

CallLen == CallOnEntity("ActionRowComponent", "__len__", EmptyItems, __len__(entity))

\* MessageFlag: the flags of a message, a bitmask.
\* a << n
ShiftLeft(a, n) == a * 2^n

\* The bitwise and, and the bitwise or, of two flag values.
RECURSIVE BitAnd(_, _)
BitAnd(a, b) ==
    IF a = 0 \/ b = 0 THEN 0
    ELSE (a % 2) * (b % 2) + 2 * BitAnd(a \div 2, b \div 2)

RECURSIVE BitOr(_, _)
BitOr(a, b) ==
    IF a = 0 THEN b
    ELSE IF b = 0 THEN a
    ELSE (IF a % 2 = 1 \/ b % 2 = 1 THEN 1 ELSE 0) + 2 * BitOr(a \div 2, b \div 2)

\* MessageFlag, with EPHEMERAL on the bit of URGENT.
MessageFlag_with_ephemeral_on_bit_4 ==
    [NONE |-> 0,
     CROSSPOSTED |-> ShiftLeft(1, 0),
     IS_CROSSPOST |-> ShiftLeft(1, 1),
     SUPPRESS_EMBEDS |-> ShiftLeft(1, 2),
     SOURCE_MESSAGE_DELETED |-> ShiftLeft(1, 3),
     URGENT |-> ShiftLeft(1, 4),
     EPHEMERAL |-> ShiftLeft(1, 4),
     LOADING |-> ShiftLeft(1, 7)]

\* The members of MessageFlag.
MessageFlag ==
    [NONE |-> 0,
     CROSSPOSTED |-> ShiftLeft(1, 0),
     IS_CROSSPOST |-> ShiftLeft(1, 1),
     SUPPRESS_EMBEDS |-> ShiftLeft(1, 2),
     SOURCE_MESSAGE_DELETED |-> ShiftLeft(1, 3),
     URGENT |-> ShiftLeft(1, 4),
     EPHEMERAL |-> ShiftLeft(1, 6),
     LOADING |-> ShiftLeft(1, 7)]

\* The handler combines the flag value it holds with a named flag: value | flag.
\* combined records the names of the flags that went into the value.
OrFlag ==
    /\ frame.status = "idle"
    /\ entity.type = "MessageFlag"
    /\ \E name \in (DOMAIN MessageFlag) \ {"NONE"} :
        entity' = [entity EXCEPT !.value = BitOr(entity.value, MessageFlag[name]),
                                 !.combined = entity.combined \cup {name}]
    /\ UNCHANGED <<app, cache, event, message, frame, tasks>>

\* The handler tests the flag value it holds against a named flag: value & flag.
AndFlag ==
    \E name \in (DOMAIN MessageFlag) \ {"NONE"} :
        CallOnEntity("MessageFlag", "__and__", [flag |-> name],
                     Returned([type |-> "MessageFlag", value |-> BitAnd(entity.value, MessageFlag[name])], <<>>))

\* The fields attrs compares and hashes, per entity class. A field is compared
\* unless it is declared eq=False, and hashed when it is declared hash=True, or
\* when it declares no hash and is compared. Message inherits the fields of
\* PartialMessage with their flags; interaction, application_id and components
\* are declared hash=False without eq=False.
Attrs_with_count_hashed ==
    [Reaction |-> [eq |-> {"emoji"}, hash |-> {"emoji", "count"}],
     Attachment |-> [eq |-> {"id"}, hash |-> {"id"}],
     MessageApplication |-> [eq |-> {"id"}, hash |-> {"id"}],
     Message |-> [eq |-> {"id", "interaction", "application_id", "components"}, hash |-> {"id"}]]

Attrs ==
    [Reaction |-> [eq |-> {"emoji"}, hash |-> {"emoji"}],
     Attachment |-> [eq |-> {"id"}, hash |-> {"id"}],
     MessageApplication |-> [eq |-> {"id"}, hash |-> {"id"}],
     Message |-> [eq |-> {"id", "interaction", "application_id", "components"}, hash |-> {"id"}]]

\* The generated __eq__: same class and every compared field equal.
__eq__(self, other) ==
    /\ self.type = other.type
    /\ \A field \in Attrs[self.type].eq : self[field] = other[field]

\* The generated __hash__: the hash of the tuple of the hashed fields, kept here
\* as that tuple.
__hash__(self) == [field \in Attrs[self.type].hash |-> self[field]]

Reaction(emoji, count, is_me) == [type |-> "Reaction", emoji |-> emoji, count |-> count, is_me |-> is_me]

Attachment(id, url, size) ==
    [type |-> "Attachment", id |-> id, url |-> url, filename |-> Str("a.png"), size |-> size]

Message(id, content, application_id, components) ==
    [type |-> "Message", id |-> id, channel_id |-> Snowflake(1), content |-> content,
     application_id |-> application_id, components |-> components, interaction |-> None]

\* The entities the transport layer decodes. A flag value arrives with no named
\* flag set, with or without a bit that has no name.
Entities ==
    {Reaction(emoji, count, is_me) : emoji \in Emojis, count \in {Integer(1), Integer(2)}, is_me \in {Bool(TRUE), Bool(FALSE)}}
    \cup {Attachment(id, url, size) : id \in MessageIds, url \in {Str("cdn/a"), Str("cdn/b")},
                                      size \in {Integer(1), Integer(2)}}
    \cup {Message(id, content, application_id, components) :
            id \in MessageIds, content \in {Str("text"), Str("edited")}, application_id \in {None, Snowflake(1)},
            components \in {List(<<>>), List(<<ActionRowComponent(<<>>)>>)}}
    \cup
    {MessageApplication(id, hash) : id \in UserIds, hash \in {None, Str("a1b2")}}
    \cup {ActionRowComponent(components) : components \in SeqsUpTo(Components, MaxLen)}
    \cup {[PartialMessage(Snowflake(1), Snowflake(1), None, UNDEFINED, UNDEFINED) EXCEPT !.components = List(rows)] :
            rows \in SeqsUpTo({ActionRowComponent(components) : components \in SeqsUpTo(Components, 1)}, MaxLen)}
    \cup {[type |-> "MessageFlag", value |-> v, combined |-> {}] : v \in {MessageFlag.NONE, ShiftLeft(1, 5)}}

\* The handler compares the entity with another value of its class and hashes
\* both.
CallEq ==
    \E other \in Entities :
        /\ entity.type \in DOMAIN Attrs
        /\ other.type = entity.type
        /\ CallOnEntity(entity.type, "__eq__", [other |-> other],
                        Returned([type |-> "Comparison", equal |-> __eq__(entity, other),
                                  hash |-> __hash__(entity), other_hash |-> __hash__(other)], <<>>))

InitEntities ==
    /\ app \in Apps
    /\ cache = EmptyCache
    /\ event = None
    /\ message = None
    /\ frame = Idle
    /\ entity \in Entities
    /\ tasks = <<>>

NextEntities ==
    \/ CallMakeCoverImageUrl
    \/ CallCoverImageUrl
    \/ CallGetItem
    \/ CallIter
    \/ CallLen
    \/ OrFlag
    \/ AndFlag
    \/ CallEq
    \/ Return

SpecEntities == InitEntities /\ [][NextEntities]_vars

\* ---------------------------------------------------------------------------
\* Properties.

GetOps == {"get_guild", "get_user", "get_members", "get_roles"}

FetchOps == {"fetch_guild", "fetch_guild_preview", "fetch_user", "fetch_ban", "fetch_emojis",
             "fetch_integrations", "fetch_channel"}

\* The ids a mention list names, and the ids a result mapping has as keys.
MentionedUsers == Range(message.mentions.users.keys)

MentionedRoles == Range(message.mentions.role_ids.items)

Keys(result) == DOMAIN result.items

\* User u is cached as a member of the guild the message was sent in.
MemberHit(u) == <<message.guild_id, u>> \in cache.members

\* C1: GuildLeaveEvent.fetch_guild() always fails with a NotImplemented-style
\* error and never issues a REST fetch_guild request.
C1_LeaveFetchGuildAlwaysFails ==
    (frame.op = "fetch_guild" /\ event.type = "GuildLeaveEvent")
        => /\ frame.status = "raised"
           /\ frame.result = [type |-> "NotImplementedError"]
           /\ frame.rest = <<>>

C3_MembersPopulatedIffAnyHit ==
    (frame.op = "get_members" /\ message.mentions.users # UNDEFINED)
        => /\ frame.result.type = "dict"
           /\ (Keys(frame.result) # {} <=> \E u \in MentionedUsers : MemberHit(u))
           /\ (frame.result = Dict(EmptyItems) <=> \A u \in MentionedUsers : ~MemberHit(u))
           /\ Cardinality(Keys(frame.result)) = Cardinality({u \in MentionedUsers : MemberHit(u)})

C3_Witness ==
    /\ frame.op = "get_members"
    /\ message.mentions.users # UNDEFINED
    /\ Cardinality(MentionedUsers) = MaxUser
    /\ Cardinality(Keys(frame.result)) = 1

\* C4: a user id is a key of get_members() if and only if it is mentioned and
\* the cache's get_member(guild_id, id) returns a value; the value under it is
\* the member the cache returned, never a placeholder; and where the lookup
\* runs, it queries the cache once per mentioned id, in order.
C4_MembersBulkLookup ==
    (frame.op = "get_members" /\ message.mentions.users # UNDEFINED)
        => /\ \A u \in UserIds : u \in Keys(frame.result) <=> (u \in MentionedUsers /\ MemberHit(u))
           /\ Keys(frame.result) \subseteq UserIds
           /\ \A u \in Keys(frame.result) : frame.result.items[u] = Member(message.guild_id, u)
           /\ (IsCacheAware(app) /\ message.guild_id # None)
                => frame.reads = [i \in DOMAIN message.mentions.users.keys |->
                                     Lookup("get_member", <<message.guild_id, message.mentions.users.keys[i]>>)]

C4_Witness ==
    /\ frame.op = "get_members"
    /\ message.mentions.users # UNDEFINED
    /\ Len(message.mentions.users.keys) = MaxUser
    /\ ~MemberHit(message.mentions.users.keys[1])
    /\ Keys(frame.result) # {}

\* C5 as claimed: get_roles() is UNDEFINED if and only if role_ids is UNDEFINED,
\* and otherwise its keys are exactly the mentioned role ids the cache holds.
C5_RolesKeysAreCachedMentions ==
    frame.op = "get_roles"
        => /\ (frame.result = UNDEFINED <=> message.mentions.role_ids = UNDEFINED)
           /\ message.mentions.role_ids # UNDEFINED
                => Keys(frame.result) = {r \in MentionedRoles : r \in cache.roles}

\* C5 amended: get_roles() is UNDEFINED if and only if role_ids is UNDEFINED;
\* otherwise, if the message has a guild_id, its keys are exactly the mentioned
\* role ids the cache holds, each with the role the cache returned, and if the
\* message has no guild_id it is empty and the cache is not queried.
C5_RolesKeysAreCachedMentionsInGuild ==
    frame.op = "get_roles"
        => /\ frame.status = "returned"
           /\ (frame.result = UNDEFINED <=> message.mentions.role_ids = UNDEFINED)
           /\ message.mentions.role_ids # UNDEFINED
                => /\ message.guild_id # None
                        => /\ Keys(frame.result) = {r \in MentionedRoles : r \in cache.roles}
                           /\ \A r \in Keys(frame.result) : frame.result.items[r] = Role(r)
                   /\ message.guild_id = None
                        => /\ frame.result = Dict(EmptyItems)
                           /\ frame.reads = <<>>

C5_Witness ==
    /\ frame.op = "get_roles"
    /\ message.mentions.role_ids # UNDEFINED
    /\ message.guild_id # None
    /\ Keys(frame.result) # {}
    /\ Keys(frame.result) # MentionedRoles

C8_GetNeverAwaitsNorCallsRest ==
    frame.op \in GetOps
        => /\ frame.status = "returned"
           /\ frame.rest = <<>>

C8_Witness ==
    /\ frame.op = "get_guild"
    /\ IsCacheAware(app)
    /\ frame.result = None

\* C9: a fetch_ accessor never looks anything up in the cache and every call
\* issues one request to the REST client, also when the entity is cached and
\* when there is no cache capability; what it returns is the REST response.
C9_FetchNeverReadsCache ==
    frame.op \in FetchOps
        => /\ frame.reads = <<>>
           /\ Len(frame.rest) = 1
           /\ frame.status \in {"awaiting", "returned", "raised"}
           /\ frame.status = "returned" => frame.result = rest_response(frame.rest[1])

C9_Witness ==
    /\ frame.op = "fetch_user"
    /\ event.type = "PresenceUpdateEvent"
    /\ user_id(event) \in cache.users
    /\ frame.status = "returned"

\* C10: get_guild() returns None, without raising, when there is no cache
\* capability or the guild is in neither store; otherwise the cached available
\* guild if there is one, and the cached unavailable guild only if there is not.
C10_GetGuildLookupOrder ==
    frame.op = "get_guild"
        => /\ frame.status = "returned"
           /\ frame.result =
                (IF ~IsCacheAware(app) THEN None
                 ELSE IF guild_id(event) \in cache.available THEN GatewayGuild(guild_id(event), TRUE)
                 ELSE IF guild_id(event) \in cache.unavailable THEN GatewayGuild(guild_id(event), FALSE)
                 ELSE None)

C10_Witness ==
    /\ frame.op = "get_guild"
    /\ guild_id(event) \in cache.available
    /\ guild_id(event) \in cache.unavailable
    /\ frame.result = GatewayGuild(guild_id(event), TRUE)

MutatorOps == {"edit", "respond", "delete", "add_reaction", "remove_reaction", "remove_all_reactions"}

\* C11: a call of a fetch_ method or of a message mutator sends exactly one
\* request to the REST client, whether the request is pending, answered or
\* failed, and never a second one; the call raises exactly when the request
\* failed, and what it raises is the error of the REST client itself.
C11_OneRestCallErrorsSurface ==
    (frame.op \in FetchOps \cup MutatorOps) =>
        /\ Len(frame.rest) = 1
        /\ (frame.status = "awaiting") <=> ("answer" \notin DOMAIN frame.rest[1])
        /\ (frame.status # "awaiting") =>
            /\ (frame.status = "raised") <=> (frame.rest[1].answer \in HTTPErrors)
            /\ (frame.rest[1].answer \in HTTPErrors) => (frame.result = frame.rest[1].answer)

C11_Witness ==
    /\ frame.op \in MutatorOps
    /\ frame.status = "raised"
    /\ frame.result \in HTTPErrors
    /\ frame.rest[1].answer = frame.result

\* C12: no step changes a field of the event or message the handlers were
\* given, and any two handlers that have read the object have read the same
\* field values.
C12_ImmutableSnapshots ==
    /\ [](\A h \in Handlers : \A o \in Handlers :
            (tasks[h].seen # None /\ tasks[o].seen # None) => (tasks[h].seen = tasks[o].seen))
    /\ [][event' = event /\ message' = message]_vars

\* C13: while the call of one handler is suspended, the dispatch loop can hand
\* the object to another handler, and another handler can call a fetch_ method
\* of its own, have its own request answered, and end; and every suspended
\* call resumes (returning or raising) or is cancelled.
C13_FetchSuspendsOnlyCaller ==
    /\ [](\A h \in Handlers : \A o \in Handlers \ {h} :
            (tasks[h].status = "awaiting") =>
                /\ (tasks[o].status = "pending") => ENABLED Deliver(o)
                /\ (tasks[o].status = "running") => ENABLED HandlerFetch(o)
                /\ (tasks[o].status = "awaiting") => ENABLED RestAnswer(o)
                /\ (tasks[o].status \in {"returned", "raised"}) => ENABLED Finish(o))
    /\ \A h \in Handlers :
            (tasks[h].status = "awaiting") ~> (tasks[h].status \in {"returned", "raised", "cancelled"})

C13_Witness ==
    \E h \in Handlers : \E o \in Handlers \ {h} :
        /\ tasks[h].status = "awaiting"
        /\ tasks[o].status = "returned"
        /\ tasks[o].op \in FetchOps
        /\ tasks[o].result = rest_response(tasks[o].rest[1])

\* C14: neither the step that suspends a fetch_ call nor the step that cancels
\* it changes the event, the message or the cache, and a cancelled call has no
\* result: its request stays unanswered and nothing is returned to the caller.
C14_CancelLeavesNoPartialState ==
    /\ [](\A h \in Handlers :
            (tasks[h].status = "cancelled") =>
                (tasks[h].result = None /\ "answer" \notin DOMAIN tasks[h].rest[1]))
    /\ [][\A h \in Handlers :
            (\/ tasks[h].status = "running" /\ tasks'[h].status = "awaiting"
             \/ tasks[h].status = "awaiting" /\ tasks'[h].status = "cancelled") =>
                (event' = event /\ message' = message /\ cache' = cache /\ app' = app)]_vars

C14_Witness ==
    \E h \in Handlers :
        /\ tasks[h].status = "cancelled"
        /\ tasks[h].op \in FetchOps
        /\ Len(tasks[h].rest) = 1
        /\ tasks[h].result = None

\* C15: respond passes the message itself as reply when the caller gave
\* reply=True, passes UNDEFINED (no reply) when the caller gave reply=False, and
\* passes any other value (nothing, an id, a message) on as it is.
C15_RespondNormalisesReply ==
    (frame.op = "respond") =>
        /\ frame.rest[1].method = "create_message"
        /\ frame.rest[1].args.reply =
            (IF frame.args.reply = Bool(TRUE) THEN message
             ELSE IF frame.args.reply = Bool(FALSE) THEN UNDEFINED
             ELSE frame.args.reply)

C15_Witness ==
    /\ frame.op = "respond"
    /\ frame.args.reply = Bool(TRUE)
    /\ frame.rest[1].args.reply = message
    /\ frame.status = "returned"

\* C16: edit passes mentions_everyone, mentions_reply, user_mentions and
\* role_mentions to the REST client's edit_message exactly as the caller gave
\* them.
C16_EditPassesMentionControls ==
    (frame.op = "edit") =>
        /\ frame.rest[1].method = "edit_message"
        /\ frame.rest[1].args.mentions_everyone = frame.args.mentions_everyone
        /\ frame.rest[1].args.mentions_reply = frame.args.mentions_reply
        /\ frame.rest[1].args.user_mentions = frame.args.user_mentions
        /\ frame.rest[1].args.role_mentions = frame.args.role_mentions

C16_Witness ==
    /\ frame.op = "edit"
    /\ frame.args.mentions_everyone = Bool(TRUE)
    /\ frame.args.mentions_reply = Bool(FALSE)
    /\ frame.args.user_mentions.type = "list"
    /\ frame.args.role_mentions.type = "list"
    /\ frame.rest[1].args.user_mentions = frame.args.user_mentions
    /\ frame.rest[1].args.mentions_reply = Bool(FALSE)

\* C17: remove_reaction without a user sends delete_my_reaction (which names no
\* user) and nothing else; with a user it sends delete_reaction for that user
\* and nothing else.
C17_RemoveReactionTarget ==
    (frame.op = "remove_reaction") =>
        /\ Len(frame.rest) = 1
        /\ (frame.args.user = UNDEFINED) =>
            (frame.rest[1].method = "delete_my_reaction" /\ "user" \notin DOMAIN frame.rest[1].args)
        /\ (frame.args.user # UNDEFINED) =>
            (frame.rest[1].method = "delete_reaction" /\ frame.rest[1].args.user = frame.args.user)
        /\ frame.rest[1].args.emoji = frame.args.emoji
        /\ frame.rest[1].args.emoji_id = frame.args.emoji_id

C17_Witness ==
    /\ frame.op = "remove_reaction"
    /\ frame.args.user \in UserIds
    /\ frame.rest[1].method = "delete_reaction"
    /\ frame.rest[1].args.user = frame.args.user

\* C18, as claimed: make_cover_image_url raises an invalid-argument error, with
\* no request sent, whenever size is not a power of two from 16 to 4096 or ext
\* is not png, jpeg, jpg or webp; otherwise it returns a URL that holds the id
\* of the application and the hash of its cover image.
C18_CoverUrlValidates ==
    (frame.op = "make_cover_image_url") =>
        /\ frame.rest = <<>>
        /\ IF frame.args.size \in {16, 32, 64, 128, 256, 512, 1024, 2048, 4096}
              /\ frame.args.ext \in {"png", "jpeg", "jpg", "webp"}
           THEN /\ frame.status = "returned"
                /\ frame.result.type = "URL"
                /\ frame.result.application_id = entity.id
                /\ frame.result.hash = entity.cover_image_hash
                /\ frame.result.size = frame.args.size
           ELSE /\ frame.status = "raised"
                /\ frame.result.type = "InvalidArgument"

\* C18, amended: the same for an application that has a cover image; for an
\* application whose cover_image_hash is None the method returns None for
\* every size and every ext.
C18_CoverUrlValidatesWithHash ==
    (frame.op = "make_cover_image_url") =>
        /\ frame.rest = <<>>
        /\ (entity.cover_image_hash = None) => (frame.status = "returned" /\ frame.result = None)
        /\ (entity.cover_image_hash # None) =>
            IF frame.args.size \in {16, 32, 64, 128, 256, 512, 1024, 2048, 4096}
               /\ frame.args.ext \in {"png", "jpeg", "jpg", "webp"}
            THEN /\ frame.status = "returned"
                 /\ frame.result.type = "URL"
                 /\ frame.result.application_id = entity.id
                 /\ frame.result.hash = entity.cover_image_hash
                 /\ frame.result.size = frame.args.size
            ELSE /\ frame.status = "raised"
                 /\ frame.result.type = "InvalidArgument"

C18_Witness ==
    /\ frame.op = "make_cover_image_url"
    /\ entity.cover_image_hash # None
    /\ frame.args.size = 100
    /\ frame.args.ext = "png"
    /\ frame.status = "raised"

\* C19, as claimed: a row of N children has length N, iterates over the children
\* in their stored order, returns the i-th child for an index i from 0 to N-1,
\* and fails with an out-of-bounds error for every other integer index.
C19_RowIsSequenceFromZero ==
    /\ (frame.op = "__len__") => (frame.result = Integer(Len(entity.components)))
    /\ (frame.op = "__iter__") => (frame.result = List(entity.components))
    /\ (frame.op = "__getitem__") =>
        IF frame.args.index \in 0 .. (Len(entity.components) - 1)
        THEN frame.status = "returned" /\ frame.result = entity.components[frame.args.index + 1]
        ELSE frame.status = "raised" /\ frame.result.type = "IndexError"

\* C19, amended: the same for the length, the iteration and the indexes from 0
\* to N-1; an index i from -N to -1 returns the child at N+i, and only an
\* integer outside -N .. N-1 fails with an out-of-bounds error.
C19_RowIsPythonSequence ==
    /\ (frame.op = "__len__") => (frame.status = "returned" /\ frame.result = Integer(Len(entity.components)))
    /\ (frame.op = "__iter__") => (frame.status = "returned" /\ frame.result = List(entity.components))
    /\ (frame.op = "__getitem__") =>
        LET N == Len(entity.components)
            i == frame.args.index
        IN  IF i \in 0 .. (N - 1) THEN frame.status = "returned" /\ frame.result = entity.components[i + 1]
            ELSE IF i \in (-N) .. (-1) THEN frame.status = "returned" /\ frame.result = entity.components[N + i + 1]
            ELSE frame.status = "raised" /\ frame.result.type = "IndexError"

C19_Witness ==
    /\ frame.op = "__getitem__"
    /\ Len(entity.components) = MaxLen
    /\ frame.args.index = -1
    /\ frame.status = "returned"
    /\ frame.result = entity.components[MaxLen]
    /\ entity.components[1] # entity.components[MaxLen]

\* C20: the named flags other than NONE are single bits, no two of them the
\* same bit; CROSSPOSTED | EPHEMERAL tested with & against each named flag is
\* non-zero for CROSSPOSTED and EPHEMERAL and zero for every other; and for
\* every value built with |, testing with & against a named flag is non-zero
\* exactly when that flag was combined into the value, and then is that flag.
C20_FlagsAreBitmask ==
    LET Named == (DOMAIN MessageFlag) \ {"NONE"}
        both == BitOr(MessageFlag.CROSSPOSTED, MessageFlag.EPHEMERAL)
    IN  /\ \A f \in Named : IsPowerOfTwo(MessageFlag[f])
        /\ \A f \in Named : \A g \in Named \ {f} : BitAnd(MessageFlag[f], MessageFlag[g]) = 0
        /\ \A f \in Named : (BitAnd(both, MessageFlag[f]) # 0) <=> (f \in {"CROSSPOSTED", "EPHEMERAL"})
        /\ (entity.type = "MessageFlag") =>
            \A f \in Named : (BitAnd(entity.value, MessageFlag[f]) # 0) <=> (f \in entity.combined)
        /\ (frame.op = "__and__") =>
            /\ (frame.result.value # 0) <=> (frame.args.flag \in entity.combined)
            /\ frame.result.value \in {0, MessageFlag[frame.args.flag]}

C20_Witness ==
    /\ entity.type = "MessageFlag"
    /\ entity.combined = {"CROSSPOSTED", "EPHEMERAL"}
    /\ entity.value = 65
    /\ frame.op = "__and__"
    /\ frame.args.flag = "EPHEMERAL"
    /\ frame.result.value = 64

C24_OldValueNeverRead ==
    LET WithOld == {"GuildLeaveEvent", "GuildUpdateEvent", "EmojisUpdateEvent", "PresenceUpdateEvent"}
        Fresh(e) == IF e.type \in {"GuildLeaveEvent", "GuildUpdateEvent"} THEN [e EXCEPT !.old_guild = None]
                    ELSE IF e.type = "EmojisUpdateEvent" THEN [e EXCEPT !.old_emojis = None]
                    ELSE [e EXCEPT !.old_presence = None]
        Outcome(op, e) == IF op = "get_guild" THEN get_guild(e)
                          ELSE IF op = "fetch_guild" THEN fetch_guild(e)
                          ELSE IF op = "fetch_guild_preview" THEN fetch_guild_preview(e)
                          ELSE IF op = "fetch_emojis" THEN fetch_emojis(e)
                          ELSE IF op = "get_user" THEN get_user(e)
                          ELSE fetch_user(e)
        Ops(e) == IF e.type = "PresenceUpdateEvent" THEN {"get_user", "fetch_user"}
                  ELSE IF e.type = "EmojisUpdateEvent" THEN {"get_guild", "fetch_guild", "fetch_guild_preview", "fetch_emojis"}
                  ELSE {"get_guild", "fetch_guild", "fetch_guild_preview"}
    IN  /\ (event # None /\ event.type \in WithOld) => (guild_id(event) = guild_id(Fresh(event)))
        /\ (event # None /\ event.type \in WithOld /\ frame.op \in Ops(event)) =>
            LET fresh == Outcome(frame.op, Fresh(event))
            IN  /\ frame.reads = fresh.reads
                /\ Len(frame.rest) = Len(fresh.rest)
                /\ (fresh.rest # <<>>) =>
                    (frame.rest[1].method = fresh.rest[1].method /\ frame.rest[1].args = fresh.rest[1].args)
                /\ (fresh.status = "returned") => (frame.result = fresh.result)

C24_Witness ==
    /\ event # None
    /\ event.type = "GuildUpdateEvent"
    /\ event.old_guild = None
    /\ frame.op = "get_guild"
    /\ frame.status = "returned"
    /\ frame.result = GatewayGuild(guild_id(event), TRUE)


\* C25 as stated: equality and hashing use identity fields only. Two values of
\* one entity class with the same identity field (the emoji of a Reaction, the
\* id of an Attachment, a MessageApplication or a Message) are equal and hash
\* alike whatever their other fields, and equal values have equal hashes.
C25_IdentityFieldsOnly ==
    frame.op = "__eq__" =>
        LET other == frame.args.other
            same == IF entity.type = "Reaction" THEN entity.emoji = other.emoji ELSE entity.id = other.id
        IN  /\ same => (frame.result.equal /\ frame.result.hash = frame.result.other_hash)
            /\ frame.result.equal => frame.result.hash = frame.result.other_hash

\* C25, amended: hashing uses the identity field only, and so does the equality
\* of Reaction, Attachment and MessageApplication; two Messages are equal exactly
\* when their id, interaction, application_id and components are all equal. For
\* every class, equal values have equal hashes.
C25_EqualityPerField ==
    frame.op = "__eq__" =>
        LET other == frame.args.other
            same == IF entity.type = "Reaction" THEN entity.emoji = other.emoji ELSE entity.id = other.id
        IN  /\ same => frame.result.hash = frame.result.other_hash
            /\ entity.type # "Message" => (frame.result.equal <=> same)
            /\ entity.type = "Message" =>
                    (frame.result.equal <=> (/\ same
                                             /\ entity.interaction = other.interaction
                                             /\ entity.application_id = other.application_id
                                             /\ entity.components = other.components))
            /\ frame.result.equal => frame.result.hash = frame.result.other_hash

\* Two Reactions with one emoji and different count and is_me compared equal
\* with one hash.
C25_Witness ==
    /\ frame.op = "__eq__"
    /\ entity.type = "Reaction"
    /\ entity.emoji = frame.args.other.emoji
    /\ entity.count # frame.args.other.count
    /\ entity.is_me # frame.args.other.is_me
    /\ frame.result.equal
    /\ frame.result.hash = frame.result.other_hash


\* C26: when other tasks change the cache while get_members or get_roles is
\* looking ids up, the call never raises; at every point of the loop and at its
\* return the keys of the results are mentioned ids, namely the ids whose own
\* lookup did not return None, and each key maps to what that lookup returned,
\* whatever the cache holds by then.
C26_LookupsSurviveCacheChanges ==
    (frame.op \in {"get_members", "get_roles"} /\ "returns" \in DOMAIN frame) =>
        LET mentioned == IF frame.op = "get_members" THEN message.mentions.users.keys
                         ELSE message.mentions.role_ids.items
            done == Len(frame.returns)
            items == frame.result.items
        IN  /\ frame.status \in {"running", "returned"}
            /\ Len(frame.reads) = done
            /\ done + Len(frame.ids) = Len(mentioned)
            /\ DOMAIN items \subseteq Range(mentioned)
            /\ DOMAIN items = {mentioned[i] : i \in {j \in 1..done : frame.returns[j] # None}}
            /\ \A i \in 1..done :
                    /\ frame.reads[i].args[Len(frame.reads[i].args)] = mentioned[i]
                    /\ frame.returns[i] # None => items[mentioned[i]] = frame.returns[i]
            /\ frame.status = "returned" => frame.ids = <<>>

\* get_members returned a member that was evicted after its lookup, and left
\* out a second id that was evicted before its own lookup.
C26_Witness ==
    /\ frame.op = "get_members"
    /\ frame.status = "returned"
    /\ "returns" \in DOMAIN frame
    /\ Len(frame.returns) = 2
    /\ frame.returns[1] # None
    /\ frame.returns[2] = None
    /\ cache.members = {}
    /\ DOMAIN frame.result.items = {message.mentions.users.keys[1]}


\* C27: remove_all_reactions sends delete_all_reactions, which carries neither
\* emoji nor emoji_id, exactly when emoji is left unspecified, even if emoji_id
\* was given; otherwise it sends delete_all_reactions_for_emoji with the emoji
\* and emoji_id of the call. It sends nothing else.
C27_RemoveAllReactionsDispatch ==
    (frame.op = "remove_all_reactions") =>
        /\ Len(frame.rest) = 1
        /\ (frame.rest[1].method = "delete_all_reactions") <=> (frame.args.emoji = UNDEFINED)
        /\ (frame.args.emoji = UNDEFINED) =>
                DOMAIN frame.rest[1].args = {"channel", "message"}
        /\ (frame.args.emoji # UNDEFINED) =>
                /\ frame.rest[1].method = "delete_all_reactions_for_emoji"
                /\ frame.rest[1].args.emoji = frame.args.emoji
                /\ frame.rest[1].args.emoji_id = frame.args.emoji_id

\* remove_all_reactions was called with emoji_id alone: every reaction is removed
\* and the emoji_id goes nowhere.
C27_Witness ==
    /\ frame.op = "remove_all_reactions"
    /\ frame.args.emoji = UNDEFINED
    /\ frame.args.emoji_id = Snowflake(1)
    /\ frame.rest[1].method = "delete_all_reactions"
    /\ "emoji_id" \notin DOMAIN frame.rest[1].args

\* C28: whatever the arguments of the call, every request of a PartialMessage
\* method names the message itself: edit, add_reaction, remove_reaction and
\* remove_all_reactions pass channel = channel_id and message = id, delete passes
\* channel_id then id, respond passes channel = channel_id and fetch_channel
\* passes channel_id.
C28_RequestsTargetTheMessage ==
    \A i \in DOMAIN frame.rest :
        LET request == frame.rest[i]
        IN  /\ frame.op \in {"edit", "add_reaction", "remove_reaction", "remove_all_reactions"} =>
                    /\ request.args.channel = message.channel_id
                    /\ request.args.message = message.id
            /\ frame.op = "delete" => request.args = <<message.channel_id, message.id>>
            /\ frame.op = "respond" => request.args.channel = message.channel_id
            /\ frame.op = "fetch_channel" => request.args = <<message.channel_id>>

\* delete was called on a message whose id differs from its channel's.
C28_Witness ==
    /\ frame.op = "delete"
    /\ message.id # message.channel_id
    /\ frame.rest[1].method = "delete_message"
    /\ frame.rest[1].args[1] = message.channel_id
    /\ frame.rest[1].args[2] = message.id


\* C29: on an application without a cover image, make_cover_image_url returns
\* None for every ext and size, valid or not, without raising and without a
\* request; cover_image_url is None on such an application and otherwise the URL
\* make_cover_image_url gives for ext "png" and size 4096.
C29_CoverUrlNoneWithoutHash ==
    /\ (frame.op \in {"make_cover_image_url", "cover_image_url"} /\ entity.cover_image_hash = None) =>
            /\ frame.status = "returned"
            /\ frame.result = None
            /\ frame.rest = <<>>
    /\ (frame.op = "cover_image_url" /\ entity.cover_image_hash # None) =>
            /\ frame.status = "returned"
            /\ frame.result.type = "URL"
            /\ frame.result.application_id = entity.id
            /\ frame.result.hash = entity.cover_image_hash
            /\ frame.result.file_format = "png"
            /\ frame.result.size = 4096

\* make_cover_image_url returned None for an ext and a size it would refuse on
\* an application with a cover image.
C29_Witness ==
    /\ frame.op = "make_cover_image_url"
    /\ entity.cover_image_hash = None
    /\ frame.args.ext = "bmp"
    /\ frame.args.size = 24
    /\ frame.status = "returned"
    /\ frame.result = None


\* C30: the id properties of an event answer the ids of its new entity:
\* guild_id is guild.id on GuildAvailableEvent and GuildUpdateEvent,
\* integration.guild_id on IntegrationCreateEvent and IntegrationUpdateEvent and
\* presence.guild_id on PresenceUpdateEvent; id is integration.id and
\* application_id is integration.application.id, or None without an
\* application; user_id is presence.user_id on PresenceUpdateEvent and user.id on
\* BanCreateEvent. Every fetch_ call names these ids, and no other, in its one
\* request.
C30_IdsOfTheNewEntity ==
    (event # None /\ frame.op # "none") =>
        LET new_guild_id ==
                IF event.type \in {"GuildAvailableEvent", "GuildUpdateEvent"} THEN event.guild.id
                ELSE IF event.type \in {"IntegrationCreateEvent", "IntegrationUpdateEvent"} THEN event.integration.guild_id
                ELSE IF event.type = "PresenceUpdateEvent" THEN event.presence.guild_id
                ELSE event.guild_id
            new_user_id ==
                IF event.type = "PresenceUpdateEvent" THEN event.presence.user_id ELSE event.user.id
            created == event.type \in {"IntegrationCreateEvent", "IntegrationUpdateEvent"}
        IN  /\ frame.op = "guild_id" => frame.result = new_guild_id
            /\ frame.op = "user_id" => frame.result = new_user_id
            /\ (frame.op = "id" /\ created) => frame.result = event.integration.id
            /\ (frame.op = "application_id" /\ created) =>
                    frame.result = IF event.integration.application = None THEN None
                                   ELSE event.integration.application.id
            /\ frame.op \in {"fetch_guild", "fetch_guild_preview", "fetch_emojis", "fetch_integrations"} =>
                    (Len(frame.rest) = 1 /\ frame.rest[1].args = <<new_guild_id>>)
            /\ frame.op = "fetch_user" =>
                    (Len(frame.rest) = 1 /\ Len(frame.rest[1].args) = 1 /\ AsId(frame.rest[1].args[1]) = new_user_id)
            /\ frame.op = "fetch_ban" =>
                    /\ Len(frame.rest) = 1
                    /\ Len(frame.rest[1].args) = 2
                    /\ frame.rest[1].args[1] = new_guild_id
                    /\ AsId(frame.rest[1].args[2]) = new_user_id

\* fetch_integrations was called on an IntegrationUpdateEvent whose integration
\* has an id other than its guild's and no application.
C30_Witness ==
    /\ event # None
    /\ event.type = "IntegrationUpdateEvent"
    /\ event.integration.application = None
    /\ event.integration.id # event.integration.guild_id
    /\ frame.op = "fetch_integrations"
    /\ frame.rest[1].args = <<event.integration.guild_id>>

============================================================================
